---- MODULE Spec2Model ----
(***************************************************************************)
(* Model of auto_rest_swagger_bat_file_service/api_client.py:              *)
(*   AutoRestSwaggerBATFileServiceConfiguration.__init__  (lines 20-26)    *)
(*   AutoRestSwaggerBATFileService.__init__               (lines 31-41)    *)
(* Python values are tagged: a string is a sequence of characters, an      *)
(* object reference is a pair <<class, address>>.                          *)
(***************************************************************************)
EXTENDS Integers, Sequences, FiniteSets, TLC

\* ---------------------------------------------------------------- bounds
MaxLen == 2          \* longest base_url string given by a caller
MaxConfigs == 2      \* configuration objects constructed in one run
MaxClients == 2      \* client constructions started in one run

\* ---------------------------------------------------------------- values
Alphabet == {"h"}

PyNone == [type |-> "NoneType", s |-> << >>]

PyStr(s) == [type |-> "str", s |-> s]

\* the literal 'http://localhost' of line 24
Localhost == PyStr(<<"h","t","t","p",":","/","/","l","o","c","a","l","h","o","s","t">>)

\* Python truth value of None or a str: None and '' are false
Truthy(v) == v.type = "str" /\ Len(v.s) > 0

StrsUpTo(n) == UNION {[1..k -> Alphabet] : k \in 0..n}

BaseUrlArgs == {PyNone} \cup {PyStr(s) : s \in StrsUpTo(MaxLen)}

FilepathArgs == {PyNone, PyStr(<<"f">>)}

Errors == {"ValueError", "TypeError"}

\* object references
None == <<"NoneType", 0>>

Unset == <<"unset", 0>>

Ref(cls, addr) == <<cls, addr>>

\* ------------------------------------------------- the models namespace
\* entries a models package namespace (models.__dict__) may hold
ModelsUniverse ==
    [n \in {"Error", "ErrorException", "error"} |->
        CASE n = "Error"          -> [isType |-> TRUE,  isModel |-> TRUE,  def |-> "class Error(Model)"]
          [] n = "ErrorException" -> [isType |-> TRUE,  isModel |-> FALSE, def |-> "class ErrorException(HttpOperationError)"]
          [] n = "error"          -> [isType |-> FALSE, isModel |-> FALSE, def |-> "module error"]]

Namespaces == {[n \in D |-> ModelsUniverse[n]] : D \in SUBSET DOMAIN ModelsUniverse}

\* ------------------------------------------------------ pure operations
\* lines 23-24, mutated: only None is replaced
DefaultBaseUrl_onlyNone(base_url) == IF base_url = PyNone THEN Localhost ELSE base_url

\* lines 23-24, mutated: the default is applied to every argument
DefaultBaseUrl_always(base_url) == Localhost

\* lines 23-24, mutated: the default literal is empty
DefaultBaseUrl_emptyDefault(base_url) == IF ~Truthy(base_url) THEN PyStr(<< >>) ELSE base_url

\* lines 23-24: if not base_url: base_url = 'http://localhost'
DefaultBaseUrl(base_url) == IF ~Truthy(base_url) THEN Localhost ELSE base_url

\* the base class constructor called at line 26 keeps what it is handed
Configuration__init__(base_url, filepath) == [base_url |-> base_url, filepath |-> filepath]

\* line 35, mutated: the isinstance filter is missing
client_models_unfiltered(ns) == ns

\* line 35: {k: v for k, v in models.__dict__.items() if isinstance(v, type)}
client_models(ns) == [k \in {n \in DOMAIN ns : ns[n].isType} |-> ns[k]]

\* line 33: ServiceClient(None, config)
ServiceClient(creds, config) == [creds |-> creds, config |-> config]

\* line 37: Deserializer(client_models)
Deserializer(classes) == [classes |-> classes]

\* lines 40-41, mutated: serializer and deserializer are swapped
filesArgs_swapped(obj) == <<obj._client, obj.config, obj._deserialize, obj._serialize>>

\* lines 40-41: files(self._client, self.config, self._serialize, self._deserialize)
filesArgs(obj) == <<obj._client, obj.config, obj._serialize, obj._deserialize>>

\* line 39, mutated: the stored configuration is dropped
configAttr_dropped(config) == None

\* line 39: self.config = config
configAttr(config) == config

\* statement order, mutated: files is constructed before config is stored
NextPc_filesFirst(pc) ==
    CASE pc = "L33" -> "L35" [] pc = "L35" -> "L36" [] pc = "L36" -> "L37"
      [] pc = "L37" -> "L40" [] pc = "L40" -> "L39" [] pc = "L39" -> "return"

\* statement order of lines 33-41
NextPc(pc) ==
    CASE pc = "L33" -> "L35" [] pc = "L35" -> "L36" [] pc = "L36" -> "L37"
      [] pc = "L37" -> "L39" [] pc = "L39" -> "L40" [] pc = "L40" -> "return"

\* no handler, mutated: the error is translated
Propagate_translated(e) == "ClientError"

\* lines 31-41 hold no try/except: an exception leaves __init__ as it is
Propagate(e) == e

\* no handler, mutated: the error is swallowed and construction goes on
RaisePc_swallowed(pc) == NextPc(pc)

\* an exception raised by a callee ends the frame
RaisePc(pc) == "idle"

\* object creation, mutated: the first client object is reused
NewSelf_reused(n) == 1

\* AutoRestSwaggerBATFileService(config) creates a fresh object for self
NewSelf(n) == n + 1

\* a fresh AutoRestSwaggerBATFileService object carries no attribute
EmptyObject ==
    [_client |-> Unset, _serialize |-> Unset, _deserialize |-> Unset,
     config |-> Unset, files |-> Unset]

\* ----------------------------------------------------------------- state
VARIABLES
    models,         \* models.__dict__, fixed when the package is imported
    configs,        \* heap of AutoRestSwaggerBATFileServiceConfiguration objects
    transports,     \* heap of ServiceClient objects
    serializers,    \* heap of Serializer objects
    deserializers,  \* heap of Deserializer objects
    filesObjs,      \* heap of files objects: the arguments each was built with
    clients,        \* heap of AutoRestSwaggerBATFileService objects
    frame,          \* the running AutoRestSwaggerBATFileService.__init__
    result          \* outcome of the last constructor call

vars == <<models, configs, transports, serializers, deserializers, filesObjs,
          clients, frame, result>>

heaps == <<transports, serializers, deserializers, filesObjs, clients>>

IdleFrame == [pc |-> "idle", self |-> 0, config |-> None, client_models |-> << >>]

NoResult ==
    [op |-> "none", kind |-> "none", ref |-> None, base_url |-> PyNone,
     filepath |-> PyNone, config |-> None, err |-> "", thrown |-> "", at |-> ""]

Init ==
    /\ models \in Namespaces
    /\ configs = << >>
    /\ transports = << >>
    /\ serializers = << >>
    /\ deserializers = << >>
    /\ filesObjs = << >>
    /\ clients = << >>
    /\ frame = IdleFrame
    /\ result = NoResult

\* ------------------------------------------- configuration construction
Returned(op, ref, base_url, filepath, config) ==
    [op |-> op, kind |-> "returned", ref |-> ref, base_url |-> base_url,
     filepath |-> filepath, config |-> config, err |-> "", thrown |-> "", at |-> ""]

Raised(op, base_url, filepath, config, e, at) ==
    [op |-> op, kind |-> "raised", ref |-> None, base_url |-> base_url,
     filepath |-> filepath, config |-> config, err |-> Propagate(e),
     thrown |-> e, at |-> at]

\* lines 20-26: AutoRestSwaggerBATFileServiceConfiguration(base_url, filepath)
NewConfiguration(base_url, filepath) ==
    /\ frame.pc = "idle"
    /\ Len(configs) < MaxConfigs
    /\ configs' = Append(configs, Configuration__init__(DefaultBaseUrl(base_url), filepath))
    /\ result' = Returned("Configuration", Ref("Configuration", Len(configs) + 1),
                          base_url, filepath, None)
    /\ UNCHANGED <<models, heaps, frame>>

\* line 26: the base class constructor raises
NewConfigurationRaises(base_url, filepath, e) ==
    /\ frame.pc = "idle"
    /\ Len(configs) < MaxConfigs
    /\ result' = Raised("Configuration", base_url, filepath, None, e, "Configuration")
    /\ UNCHANGED <<models, configs, heaps, frame>>

\* ------------------------------------------------- client construction
ConfigRefs == {None} \cup {Ref("Configuration", i) : i \in 1..Len(configs)}

self == clients[frame.self]

SetAttr(attr, v) == clients' = [clients EXCEPT ![frame.self] = [@ EXCEPT ![attr] = v]]

Advance == frame' = [frame EXCEPT !.pc = NextPc(frame.pc)]

\* a callee raises e at the current statement
Raise(e, at) ==
    /\ frame' = IF RaisePc(frame.pc) = "idle" THEN IdleFrame
                ELSE [frame EXCEPT !.pc = RaisePc(frame.pc)]
    /\ result' = IF RaisePc(frame.pc) = "idle"
                 THEN Raised("Service", PyNone, PyNone, frame.config, e, at)
                 ELSE result

\* line 31: AutoRestSwaggerBATFileService(config) is called
Call(config) ==
    /\ frame.pc = "idle"
    /\ Len(clients) < MaxClients
    /\ clients' = [i \in 1..(IF NewSelf(Len(clients)) > Len(clients)
                             THEN Len(clients) + 1 ELSE Len(clients)) |->
                      IF i <= Len(clients) THEN clients[i] ELSE EmptyObject]
    /\ frame' = [pc |-> "L33", self |-> NewSelf(Len(clients)), config |-> config,
                 client_models |-> << >>]
    /\ result' = NoResult
    /\ UNCHANGED <<models, configs, transports, serializers, deserializers, filesObjs>>

\* line 33: self._client = ServiceClient(None, config)
L33 ==
    /\ frame.pc = "L33"
    /\ transports' = Append(transports, ServiceClient(None, frame.config))
    /\ SetAttr("_client", Ref("ServiceClient", Len(transports) + 1))
    /\ Advance
    /\ UNCHANGED <<models, configs, serializers, deserializers, filesObjs, result>>

L33Raises(e) ==
    /\ frame.pc = "L33"
    /\ Raise(e, "ServiceClient")
    /\ UNCHANGED <<models, configs, heaps>>

\* line 35: client_models = {...}
L35 ==
    /\ frame.pc = "L35"
    /\ frame' = [frame EXCEPT !.pc = NextPc(frame.pc),
                              !.client_models = client_models(models)]
    /\ UNCHANGED <<models, configs, heaps, result>>

\* line 36: self._serialize = Serializer()
L36 ==
    /\ frame.pc = "L36"
    /\ serializers' = Append(serializers, "Serializer")
    /\ SetAttr("_serialize", Ref("Serializer", Len(serializers) + 1))
    /\ Advance
    /\ UNCHANGED <<models, configs, transports, deserializers, filesObjs, result>>

L36Raises(e) ==
    /\ frame.pc = "L36"
    /\ Raise(e, "Serializer")
    /\ UNCHANGED <<models, configs, heaps>>

\* line 37: self._deserialize = Deserializer(client_models)
L37 ==
    /\ frame.pc = "L37"
    /\ deserializers' = Append(deserializers, Deserializer(frame.client_models))
    /\ SetAttr("_deserialize", Ref("Deserializer", Len(deserializers) + 1))
    /\ Advance
    /\ UNCHANGED <<models, configs, transports, serializers, filesObjs, result>>

L37Raises(e) ==
    /\ frame.pc = "L37"
    /\ Raise(e, "Deserializer")
    /\ UNCHANGED <<models, configs, heaps>>

\* line 39: self.config = config
L39 ==
    /\ frame.pc = "L39"
    /\ SetAttr("config", configAttr(frame.config))
    /\ Advance
    /\ UNCHANGED <<models, configs, transports, serializers, deserializers,
                   filesObjs, result>>

\* lines 40-41: self.files = files(self._client, self.config, ...)
L40 ==
    /\ frame.pc = "L40"
    /\ filesObjs' = Append(filesObjs, filesArgs(self))
    /\ SetAttr("files", Ref("files", Len(filesObjs) + 1))
    /\ Advance
    /\ UNCHANGED <<models, configs, transports, serializers, deserializers, result>>

L40Raises(e) ==
    /\ frame.pc = "L40"
    /\ Raise(e, "files")
    /\ UNCHANGED <<models, configs, heaps>>

\* end of __init__: the constructed object is handed to the caller
Return ==
    /\ frame.pc = "return"
    /\ result' = Returned("Service", Ref("Service", frame.self), PyNone, PyNone,
                          frame.config)
    /\ frame' = IdleFrame
    /\ UNCHANGED <<models, configs, heaps>>

\* the constructors of the configuration class alone
NextConfiguration ==
    \/ \E b \in BaseUrlArgs, f \in FilepathArgs : NewConfiguration(b, f)
    \/ \E b \in BaseUrlArgs, f \in FilepathArgs, e \in Errors : NewConfigurationRaises(b, f, e)

SpecConfiguration == Init /\ [][NextConfiguration]_vars

\* the facade, constructed on configurations built with no argument
Next ==
    \/ NewConfiguration(PyNone, PyNone)
    \/ \E c \in ConfigRefs : Call(c)
    \/ L33
    \/ \E e \in Errors : L33Raises(e)
    \/ L35
    \/ L36
    \/ \E e \in Errors : L36Raises(e)
    \/ L37
    \/ \E e \in Errors : L37Raises(e)
    \/ L39
    \/ L40
    \/ \E e \in Errors : L40Raises(e)
    \/ Return

Spec == Init /\ [][Next]_vars

\* ---------------------------------------------------------------- claims
ConfigurationReturned == result.op = "Configuration" /\ result.kind = "returned"

ServiceReturned == result.op = "Service" /\ result.kind = "returned"

ServiceRaised == result.op = "Service" /\ result.kind = "raised"

Attrs == {"_client", "_serialize", "_deserialize", "config", "files"}

IsSet(i, attr) == clients[i][attr] # Unset

\* C1: a configuration constructed without a base URL (None), whatever the
\* filepath, has base_url = 'http://localhost'.
C1_DefaultBaseUrl ==
    (ConfigurationReturned /\ result.base_url = PyNone)
        => configs[result.ref[2]].base_url = Localhost

C1_Witness ==
    /\ ConfigurationReturned
    /\ result.base_url = PyNone
    /\ result.filepath = PyStr(<<"f">>)
    /\ configs[result.ref[2]].filepath = PyStr(<<"f">>)

\* C2 as stated: every string passed explicitly as base_url is the
\* configuration's base_url.
C2_EveryStringPreserved ==
    (ConfigurationReturned /\ result.base_url.type = "str")
        => configs[result.ref[2]].base_url = result.base_url

\* C2, amended: every non-empty string passed explicitly as base_url is the
\* configuration's base_url; the empty string is replaced by the default.
C2_NonEmptyPreserved ==
    /\ (ConfigurationReturned /\ Truthy(result.base_url))
           => configs[result.ref[2]].base_url = result.base_url
    /\ (ConfigurationReturned /\ result.base_url = PyStr(<< >>))
           => configs[result.ref[2]].base_url = Localhost

C2_Witness ==
    /\ ConfigurationReturned
    /\ result.base_url = PyStr(<<"h", "h">>)
    /\ configs[result.ref[2]].base_url = PyStr(<<"h", "h">>)

\* C3: every constructed configuration has a non-empty base_url, whatever
\* base_url (None, '', non-empty) and filepath were given.
C3_BaseUrlNonEmpty ==
    \A i \in 1..Len(configs) :
        configs[i].base_url.type = "str" /\ Len(configs[i].base_url.s) > 0

C3_Witness ==
    /\ ConfigurationReturned
    /\ result.base_url = PyStr(<< >>)
    /\ Len(configs[result.ref[2]].base_url.s) > 0

\* C4: a client returned by the constructor called with configuration c has
\* config = c, the same reference, and files is a files object.
C4_ConfigIsArgument ==
    ServiceReturned =>
        /\ clients[result.ref[2]].config = result.config
        /\ clients[result.ref[2]].files[1] = "files"
        /\ clients[result.ref[2]].files[2] \in 1..Len(filesObjs)

C4_Witness ==
    /\ ServiceReturned
    /\ Len(configs) = 2
    /\ configs[1] = configs[2]
    /\ result.config = Ref("Configuration", 2)
    /\ clients[result.ref[2]].config = Ref("Configuration", 2)

\* C5 as stated: the registry handed to the Deserializer holds exactly the
\* model types of the namespace, and nothing that is not a model.
C5_ExactlyModelTypes ==
    \A i \in 1..Len(deserializers) :
        DOMAIN deserializers[i].classes = {n \in DOMAIN models : models[n].isModel}

\* C5, amended: the registry handed to the Deserializer holds exactly the
\* entries of the namespace whose value is an instance of type, model or
\* not, each under its own name and mapped to the namespace's value; no
\* entry that is not an instance of type appears.
C5_ExactlyTypes ==
    \A i \in 1..Len(deserializers) :
        /\ DOMAIN deserializers[i].classes = {n \in DOMAIN models : models[n].isType}
        /\ \A k \in DOMAIN deserializers[i].classes :
               deserializers[i].classes[k] = models[k]

C5_Witness ==
    /\ DOMAIN models = {"Error", "ErrorException", "error"}
    /\ Len(deserializers) > 0
    /\ DOMAIN deserializers[1].classes = {"Error", "ErrorException"}

\* C6: the files object of a client was built with the client's own
\* transport, configuration, serializer and deserializer, in that order,
\* and no further transport, serializer or deserializer exists for it.
C6_FilesSharesCollaborators ==
    /\ \A i \in 1..Len(clients) :
           IsSet(i, "files") =>
               /\ filesObjs[clients[i].files[2]] =
                      <<clients[i]._client, clients[i].config,
                        clients[i]._serialize, clients[i]._deserialize>>
               /\ clients[i]._client[1] = "ServiceClient"
               /\ clients[i]._serialize[1] = "Serializer"
               /\ clients[i]._deserialize[1] = "Deserializer"
    /\ Len(transports) <= Len(clients)
    /\ Len(serializers) <= Len(clients)
    /\ Len(deserializers) <= Len(clients)

C6_Witness ==
    /\ ServiceReturned
    /\ result.config = Ref("Configuration", 1)
    /\ filesObjs[clients[result.ref[2]].files[2]][2] = Ref("Configuration", 1)
    /\ filesObjs[clients[result.ref[2]].files[2]][3][1] = "Serializer"

\* C7: an error raised by ServiceClient, Serializer, Deserializer or files
\* is the error the constructor ends in; no client is returned and the
\* constructor is over.
C7_ErrorPropagatesUnchanged ==
    ServiceRaised =>
        /\ result.err = result.thrown
        /\ result.err \in Errors
        /\ result.ref = None
        /\ frame.pc = "idle"

C7_Witness ==
    /\ ServiceRaised
    /\ result.at = "files"
    /\ result.thrown = "TypeError"
    /\ result.err = "TypeError"

\* C8: in every step of a construction, the transport, built from the
\* configuration, is assigned first, then the serializer, then the deserializer (from the registry built
\* before it), then config, then files; files is assigned only when the
\* other four are there.
C8_StepOrder ==
    [][\A i \in 1..Len(clients') :
          LET old == IF i <= Len(clients) THEN clients[i] ELSE EmptyObject
              new == clients'[i]
          IN  /\ new._client # old._client =>
                     /\ old = EmptyObject
                     /\ transports'[new._client[2]].creds = None
                     /\ transports'[new._client[2]].config = frame.config
              /\ new._serialize # old._serialize =>
                     /\ old._client # Unset
                     /\ old._serialize = Unset /\ old._deserialize = Unset
                     /\ old.config = Unset /\ old.files = Unset
              /\ new._deserialize # old._deserialize =>
                     /\ old._client # Unset /\ old._serialize # Unset
                     /\ old._deserialize = Unset
                     /\ old.config = Unset /\ old.files = Unset
                     /\ deserializers'[new._deserialize[2]].classes = frame.client_models
              /\ new.config # old.config =>
                     /\ old._client # Unset /\ old._serialize # Unset
                     /\ old._deserialize # Unset
                     /\ old.config = Unset /\ old.files = Unset
              /\ new.files # old.files =>
                     /\ old._client # Unset /\ old._serialize # Unset
                     /\ old._deserialize # Unset /\ old.config # Unset
                     /\ old.files = Unset]_vars

C8_Witness ==
    /\ frame.pc = "L40"
    /\ IsSet(frame.self, "config")
    /\ ~IsSet(frame.self, "files")
    /\ self.config = Ref("Configuration", 1)

\* C9: an attribute of a client, once assigned, is never assigned again, and
\* a returned client has all five; so after construction the five
\* references stay as they are in every later step.
C9_AssignedOnce ==
    [][/\ Len(clients') >= Len(clients)
       /\ \A i \in 1..Len(clients) : \A a \in Attrs :
              IsSet(i, a) => clients'[i][a] = clients[i][a]
       /\ (result'.op = "Service" /\ result'.kind = "returned") =>
              \A a \in Attrs : clients'[result'.ref[2]][a] # Unset]_vars

C9_Witness ==
    /\ Len(clients) = 2
    /\ \A a \in Attrs : IsSet(1, a)
    /\ \A a \in Attrs : IsSet(2, a)
    /\ clients[1]._client # clients[2]._client

\* C10: a failed construction leaves no later step's result: after a failure
\* of the transport nothing is assigned or built, after a failure of the
\* serializer or deserializer neither config nor files is assigned, and
\* files is only ever set together with the other four.
C10_NoLaterStepAfterFailure ==
    /\ \A i \in 1..Len(clients) :
           IsSet(i, "files") => \A a \in Attrs : IsSet(i, a)
    /\ (ServiceRaised /\ result.at = "ServiceClient") =>
           \A a \in Attrs : ~IsSet(Len(clients), a)
    /\ (ServiceRaised /\ result.at \in {"Serializer", "Deserializer"}) =>
           ~IsSet(Len(clients), "config") /\ ~IsSet(Len(clients), "files")
    /\ Len(serializers) = Cardinality({i \in 1..Len(clients) : IsSet(i, "_serialize")})
    /\ Len(deserializers) = Cardinality({i \in 1..Len(clients) : IsSet(i, "_deserialize")})
    /\ Len(filesObjs) = Cardinality({i \in 1..Len(clients) : IsSet(i, "files")})

C10_Witness ==
    /\ ServiceRaised
    /\ result.at = "Serializer"
    /\ IsSet(Len(clients), "_client")
    /\ ~IsSet(Len(clients), "_serialize")
    /\ Len(serializers) < Len(transports)

====
